---- MODULE Spec2Model ----
(***************************************************************************)
(* The orchestration loop of ebd_toolchain (src/src/ebd_toolchain/main.py, *)
(* _main): for every EBD key of a document it runs extraction,             *)
(* normalization, json export, graph conversion, puml export and dot/svg   *)
(* export, files every caught failure in the error ledger and, at the end, *)
(* prints the sorted ledger.                                               *)
(*                                                                         *)
(* The libraries ebdamame and rebdhuhn and the kroki service are outside   *)
(* the repository: every call into them is a step whose result (a value or *)
(* a raised exception) is chosen nondeterministically.  What the loop does *)
(* with each result is taken from main.py.                                 *)
(***************************************************************************)
EXTENDS Integers, Sequences, FiniteSets, TLC

VARIABLES
    env,            \* process environment: KROKI_HOST, KROKI_PORT
    export_types,   \* the -t options, as the set the "in" tests read
    all_ebd_keys,   \* the keys of get_all_ebd_keys(input_path), in dict order
    dir_exists,     \* output_path.exists() and output_path.is_dir()
    files,          \* regular files directly in output_path: name -> content
    subdirs,        \* sub-directories of output_path (with what they hold)
    pc,             \* position of _main
    idx,            \* position of the for loop in all_ebd_keys
    docx_tables,    \* local of _main: result of get_ebd_docx_tables
    ebd_table,      \* local of _main: the normalized table
    ebd_graph,      \* local of _main: the converted graph
    error_sources,  \* the error ledger, a dict in insertion order
    sorted_errors,  \* the dict printed at the end
    out,            \* the lines printed with click.secho
    calls,          \* the calls of the loop body, with their results
    raised,         \* the exception that left _main, or None
    run,            \* which invocation of the command this is: the first or a re-run
    first           \* in a re-run: what the first invocation called and left behind

vars == <<env, export_types, all_ebd_keys, dir_exists, files, subdirs, pc, idx,
          docx_tables, ebd_table, ebd_graph, error_sources, sorted_errors,
          out, calls, raised, run, first>>

\* ------------------------------------------------------------------ bounds

\* Largest number of EBD keys in the document.
MaxKeys == 2

\* Number of rows of an extracted table.
NumRows == 3

\* ------------------------------------------------------------------ values

None == "None"

\* Keys the document may hold, in the order get_all_ebd_keys returns them.
KeyPool == <<"E_0003", "E_0015", "E_0025", "E_0401">>

\* Remarks an EbdNoTableSection carries: the paragraph that explains the absence.
Remarks == {"Es ist das EBD E_0402 zu nutzen."}

ExportTypeChoices == {"puml", "dot", "json", "svg"}

\* ------------------------------------------------------------------ strings

\* The code points of the strings the ledger keys are built from; Python
\* compares, concatenates and tests prefixes of str values code point by code point.
CodePoints(s) ==
  CASE s = "ERROR:scraping" -> <<69, 82, 82, 79, 82, 58, 115, 99, 114, 97, 112, 105, 110, 103>>
    [] s = "ERROR:graph_conversion" -> <<69, 82, 82, 79, 82, 58, 103, 114, 97, 112, 104, 95, 99, 111, 110, 118, 101, 114, 115, 105, 111, 110>>
    [] s = "ERROR:svg_export" -> <<69, 82, 82, 79, 82, 58, 115, 118, 103, 95, 101, 120, 112, 111, 114, 116>>
    [] s = "WARNING:puml_export" -> <<87, 65, 82, 78, 73, 78, 71, 58, 112, 117, 109, 108, 95, 101, 120, 112, 111, 114, 116>>
    [] s = "TableNotFoundError" -> <<84, 97, 98, 108, 101, 78, 111, 116, 70, 111, 117, 110, 100, 69, 114, 114, 111, 114>>
    [] s = "EbdTableNotConvertibleError" -> <<69, 98, 100, 84, 97, 98, 108, 101, 78, 111, 116, 67, 111, 110, 118, 101, 114, 116, 105, 98, 108, 101, 69, 114, 114, 111, 114>>
    [] s = "ValueError" -> <<86, 97, 108, 117, 101, 69, 114, 114, 111, 114>>
    [] s = "GraphConversionError" -> <<71, 114, 97, 112, 104, 67, 111, 110, 118, 101, 114, 115, 105, 111, 110, 69, 114, 114, 111, 114>>
    [] s = "KeyError" -> <<75, 101, 121, 69, 114, 114, 111, 114>>
    [] s = "PlantumlConversionError" -> <<80, 108, 97, 110, 116, 117, 109, 108, 67, 111, 110, 118, 101, 114, 115, 105, 111, 110, 69, 114, 114, 111, 114>>
    [] s = "AssertionError" -> <<65, 115, 115, 101, 114, 116, 105, 111, 110, 69, 114, 114, 111, 114>>
    [] s = "SvgConversionError" -> <<83, 118, 103, 67, 111, 110, 118, 101, 114, 115, 105, 111, 110, 69, 114, 114, 111, 114>>
    [] s = "ConnectionError" -> <<67, 111, 110, 110, 101, 99, 116, 105, 111, 110, 69, 114, 114, 111, 114>>
    [] s = "OSError" -> <<79, 83, 69, 114, 114, 111, 114>>
    [] s = "[WARNING" -> <<91, 87, 65, 82, 78, 73, 78, 71>>
    [] s = "[" -> <<91>>
    [] s = "] " -> <<93, 32>>
    [] s = "ERROR" -> <<69, 82, 82, 79, 82>>
    [] s = "WARNING" -> <<87, 65, 82, 78, 73, 78, 71>>
    [] s = ":" -> <<58>>
    [] s = "scraping" -> <<115, 99, 114, 97, 112, 105, 110, 103>>
    [] s = "graph_conversion" -> <<103, 114, 97, 112, 104, 95, 99, 111, 110, 118, 101, 114, 115, 105, 111, 110>>
    [] s = "svg_export" -> <<115, 118, 103, 95, 101, 120, 112, 111, 114, 116>>
    [] s = "puml_export" -> <<112, 117, 109, 108, 95, 101, 120, 112, 111, 114, 116>>

\* str.startswith
startswith(s, prefix) ==
    /\ Len(prefix) <= Len(s)
    /\ SubSeq(s, 1, Len(prefix)) = prefix

\* str.__lt__: lexicographic by code point, a proper prefix is smaller.
RECURSIVE str_lt(_, _)
str_lt(a, b) ==
    IF b = <<>> THEN FALSE
    ELSE IF a = <<>> THEN TRUE
    ELSE IF Head(a) # Head(b) THEN Head(a) < Head(b)
    ELSE str_lt(Tail(a), Tail(b))

\* ------------------------------------------------------------------ ledger

\* class ErrorCategory(Enum): member name -> value
ErrorCategory(member) ==
  CASE member = "SCRAPING" -> "ERROR:scraping"
    [] member = "GRAPH_CONVERSION" -> "ERROR:graph_conversion"
    [] member = "SVG_EXPORT" -> "ERROR:svg_export"
    [] member = "PUML_EXPORT" -> "WARNING:puml_export"

\* key = f"[{category.value}] {error_type_name}"
format_key(category, error_type_name) ==
    CodePoints("[") \o CodePoints(ErrorCategory(category)) \o CodePoints("] ")
        \o CodePoints(error_type_name)

\* Position of key in the dict (a sequence of <<key, list>> items), 0 if absent.
dict_index(d, key) ==
    IF \E i \in 1..Len(d) : d[i][1] = key
    THEN CHOOSE i \in 1..Len(d) : d[i][1] = key
    ELSE 0

\* handle_known_error mutated: the identifier is put at the front of the list.
handle_known_error_prepend(sources, error, ebd_key, category) ==
    LET key == format_key(category, error)
        d == IF dict_index(sources, key) = 0
             THEN Append(sources, <<key, <<>>>>) ELSE sources
        i == dict_index(d, key)
    IN  [d EXCEPT ![i] = <<key, <<ebd_key>> \o d[i][2]>>]

\* handle_known_error mutated: every failure is filed under SVG_EXPORT.
handle_known_error_svg(sources, error, ebd_key, category) ==
    LET key == format_key("SVG_EXPORT", error)
        d == IF dict_index(sources, key) = 0
             THEN Append(sources, <<key, <<>>>>) ELSE sources
        i == dict_index(d, key)
    IN  [d EXCEPT ![i] = <<key, Append(d[i][2], ebd_key)>>]

\* handle_known_error: the ledger after filing ebd_key under the key of
\* (category, type(error).__name__).
handle_known_error(sources, error, ebd_key, category) ==
    LET key == format_key(category, error)
        d == IF dict_index(sources, key) = 0
             THEN Append(sources, <<key, <<>>>>) ELSE sources
        i == dict_index(d, key)
    IN  [d EXCEPT ![i] = <<key, Append(d[i][2], ebd_key)>>]

\* The line handle_known_error prints.
error_line(error, ebd_key, category) ==
    [line |-> "error",
     color |-> IF category = "PUML_EXPORT" THEN "yellow" ELSE "red",
     category |-> ErrorCategory(category), key |-> ebd_key, error |-> error]

\* ------------------------------------------------------------------ sorting

\* sort key mutated: only the severity flag, without the key itself.
sort_key_flag_only(item) == <<startswith(item[1], CodePoints("[WARNING")), <<>>>>

\* key=lambda x: (x[0].startswith("[WARNING"), x[0])
sort_key(item) == <<startswith(item[1], CodePoints("[WARNING")), item[1]>>

\* Python's tuple order on (bool, str): False < True, then the strings.
sort_key_lt(a, b) ==
    IF a[1] # b[1] THEN (~a[1]) /\ b[1] ELSE str_lt(a[2], b[2])

\* Stable insertion of item into a sorted list: after every element that is
\* not greater than it.
RECURSIVE insert_sorted(_, _)
insert_sorted(s, item) ==
    IF s = <<>> THEN <<item>>
    ELSE IF sort_key_lt(sort_key(item), sort_key(Head(s)))
         THEN <<item>> \o s
         ELSE <<Head(s)>> \o insert_sorted(Tail(s), item)

\* sorted(items, key=...): a stable sort of the items in dict order.
RECURSIVE sorted(_)
sorted(items) ==
    IF items = <<>> THEN <<>>
    ELSE insert_sorted(sorted(SubSeq(items, 1, Len(items) - 1)), items[Len(items)])

\* ------------------------------------------------------------------ settings

\* int(value) as pydantic validates kroki_port: the number, or a validation
\* error if the text is no integer.
parse_int(value) ==
  CASE value = "8000" -> [valid |-> TRUE, number |-> 8000]
    [] value = "80" -> [valid |-> TRUE, number |-> 80]
    [] OTHER -> [valid |-> FALSE, number |-> 0]

\* Settings(): both fields are required, kroki_port must validate as int.
settings_valid(e) ==
    /\ e.KROKI_HOST # None
    /\ e.KROKI_PORT # None
    /\ parse_int(e.KROKI_PORT).valid

Environments ==
    [KROKI_HOST : {None, "localhost"}, KROKI_PORT : {None, "8000", "not_an_integer"}]

\* ------------------------------------------------------------------ files

\* A local of _main that no statement has assigned yet.
Unbound ==
    [kind |-> "unbound", ebd_code |-> None, role |-> None, remark |-> None, rows |-> 0]

\* What an output directory left by an earlier run may hold.
StaleFiles ==
    [n \in {<<KeyPool[1], "puml">>, <<KeyPool[1], "svg">>, <<"README", "md">>}
        |-> [kind |-> "stale", value |-> Unbound]]

StaleSubdirs == {[name |-> "archive", holds |-> {<<KeyPool[1], "json">>}]}

NoFiles == [n \in {} |-> [kind |-> "stale", value |-> Unbound]]

\* The clearing of the directory mutated: the files are left where they are.
unlink_files_keeps(fs, existed) == fs

\* if output_path.exists() and output_path.is_dir(): every item that is a
\* regular file is unlinked; the sub-directories are not touched.
unlink_files(fs, existed) == IF existed THEN NoFiles ELSE fs

\* open(path, "w+") and write: the file is created or replaced.
write_file(fs, name, content) ==
    [n \in DOMAIN fs \cup {name} |-> IF n = name THEN content ELSE fs[n]]

\* ------------------------------------------------------------------ control

\* Where _main goes after handle_known_error, mutated: the graph conversion
\* handlers fall through to the exports instead of "continue".
after_error_graph_falls_through(stage) ==
  CASE stage = "extract" -> "continue"
    [] stage = "normalize" -> "continue"
    [] stage = "graph" -> "puml"
    [] stage = "puml" -> "dot"
    [] stage = "dot" -> "continue"
    [] stage = "svg" -> "continue"

\* Mutated: the puml handlers "continue", so dot and svg are not attempted.
after_error_puml_continues(stage) ==
  CASE stage = "extract" -> "continue"
    [] stage = "normalize" -> "continue"
    [] stage = "graph" -> "continue"
    [] stage = "puml" -> "continue"
    [] stage = "dot" -> "continue"
    [] stage = "svg" -> "continue"

\* Mutated: a failed extraction is tried again for the same key.
after_error_extract_retries(stage) ==
  CASE stage = "extract" -> "extract"
    [] stage = "normalize" -> "continue"
    [] stage = "graph" -> "continue"
    [] stage = "puml" -> "dot"
    [] stage = "dot" -> "continue"
    [] stage = "svg" -> "continue"

\* Mutated: a failed dot export goes on to the svg export.
after_error_dot_then_svg(stage) ==
  CASE stage = "extract" -> "continue"
    [] stage = "normalize" -> "continue"
    [] stage = "graph" -> "continue"
    [] stage = "puml" -> "dot"
    [] stage = "dot" -> "svg"
    [] stage = "svg" -> "continue"

\* Mutated: the scraping handlers fall through to the next stage.
after_error_scraping_falls_through(stage) ==
  CASE stage = "extract" -> "normalize"
    [] stage = "normalize" -> "json"
    [] stage = "graph" -> "continue"
    [] stage = "puml" -> "dot"
    [] stage = "dot" -> "continue"
    [] stage = "svg" -> "continue"

\* Where _main goes after handle_known_error in the handlers of a stage:
\* "continue" (lines 161, 164, 192, 201, 204), on to the dot/svg block after
\* the puml handlers (lines 213-218), the end of the loop body after the
\* handlers of the dot/svg block (lines 227-231).
after_error(stage) ==
  CASE stage = "extract" -> "continue"
    [] stage = "normalize" -> "continue"
    [] stage = "graph" -> "continue"
    [] stage = "puml" -> "dot"
    [] stage = "dot" -> "continue"
    [] stage = "svg" -> "continue"

\* The statement order of the loop body mutated: the json export comes after
\* the graph conversion.
next_stage_json_late(stage) ==
  CASE stage = "extract" -> "normalize"
    [] stage = "normalize" -> "graph"
    [] stage = "graph" -> "json"
    [] stage = "json" -> "puml"
    [] stage = "puml" -> "dot"
    [] stage = "dot" -> "svg"
    [] stage = "svg" -> "continue"

\* The statement order of the loop body: the stage that follows a stage
\* that raised nothing (or was not requested).
next_stage(stage) ==
  CASE stage = "extract" -> "normalize"
    [] stage = "normalize" -> "json"
    [] stage = "json" -> "graph"
    [] stage = "graph" -> "puml"
    [] stage = "puml" -> "dot"
    [] stage = "dot" -> "svg"
    [] stage = "svg" -> "continue"

\* "if not any(ebd_table.rows)" mutated: the puml export is never skipped.
puml_skipped_never(table) == FALSE

\* puml_skipped mutated: the puml export is skipped for every table.
puml_skipped_always(table) == TRUE

\* if not any(ebd_table.rows): skip the puml export
puml_skipped(table) == ~(table.rows > 0)

\* The key the for loop is at.
ebd_key == all_ebd_keys[idx]

\* Go to a stage of the same key, or to the next key of the for loop.
Goto(target) ==
    IF target = "continue"
    THEN pc' = "for" /\ idx' = idx + 1
    ELSE pc' = target /\ idx' = idx

\* A call of this iteration with what it raised ("ok": nothing) and returned.
Call(fn, result, returned) ==
    calls' = Append(calls, [fn |-> fn, key |-> ebd_key, result |-> result,
                            returned |-> returned])

\* except ...: handle_known_error(error, ebd_key, category), then on as the handler says
Handle(stage, error, category) ==
    /\ error_sources' = handle_known_error(error_sources, error, ebd_key, category)
    /\ out' = Append(out, error_line(error, ebd_key, category))
    /\ Goto(after_error(stage))

\* An exception nothing catches leaves _main.
Escape(error) ==
    /\ pc' = "crashed"
    /\ raised' = error
    /\ idx' = idx

exported_line(ext) == [line |-> "exported", key |-> ebd_key, ext |-> ext]

\* ------------------------------------------------------------------ results

\* What get_ebd_docx_tables can hand back: a list of docx tables (here: how
\* many rows they hold) or an EbdNoTableSection with its remark.
ExtractValues ==
    [kind : {"tables"}, ebd_code : {None}, role : {None}, remark : {None}, rows : {NumRows}]
        \cup [kind : {"no_table"}, ebd_code : {None}, role : {None}, remark : Remarks,
              rows : {0}]

\* The exceptions of get_ebd_docx_tables that _main names, and one it does not.
ExtractErrors == {"TableNotFoundError", "EbdTableNotConvertibleError", "ValueError"}

ConvertResults == {"ok", "ValueError"}
DumpJsonResults == {"ok", "OSError"}
GraphResults == {"ok", "GraphConversionError", "KeyError"}
PumlResults == {"ok", "PlantumlConversionError", "AssertionError"}
DotResults == {"ok", "ValueError"}
SvgResults == {"ok", "SvgConversionError", "ConnectionError"}

\* The results a call of the loop body can have.  In a re-run the document
\* and the libraries behave as in the first invocation: the call ends as the
\* same call for the same key ended then.
Replayed(fn, key, results) ==
    IF run = 1 THEN results
    ELSE {r \in results :
            \E i \in 1..Len(first.calls) :
                /\ first.calls[i].fn = fn
                /\ first.calls[i].key = key
                /\ first.calls[i].result = r}

\* The values get_ebd_docx_tables can return, in a re-run the one it returned.
ReplayedValues(key, values) ==
    IF run = 1 THEN values
    ELSE {v \in values :
            \E i \in 1..Len(first.calls) :
                /\ first.calls[i].fn = "get_ebd_docx_tables"
                /\ first.calls[i].key = key
                /\ first.calls[i].result = "ok"
                /\ first.calls[i].returned = v}

\* Nothing is known of an earlier invocation.
NoFirstRun == [files |-> NoFiles, calls |-> <<>>, pc |-> "start"]

\* EbdTable(metadata=EbdTableMetaData(..., role="N/A", remark=docx_tables.remark), rows=[])
\* mutated: the remark is left out.
metadata_only_table_no_remark(key, marker) ==
    [kind |-> "table", ebd_code |-> key, role |-> "N/A", remark |-> None, rows |-> 0]

\* EbdTable(metadata=EbdTableMetaData(..., role="N/A", remark=docx_tables.remark), rows=[])
metadata_only_table(key, marker) ==
    [kind |-> "table", ebd_code |-> key, role |-> "N/A", remark |-> marker.remark, rows |-> 0]

\* The table DocxTableConverter(...).convert_docx_tables_to_ebd_table() returns.
converted_table(key, tables) ==
    [kind |-> "table", ebd_code |-> key, role |-> "LF", remark |-> None, rows |-> tables.rows]

\* The graph convert_table_to_graph returns for a table.
graph_of(table) == [table EXCEPT !.kind = "graph"]

\* ------------------------------------------------------------------ Init

Init ==
    /\ env \in Environments
    /\ export_types \in SUBSET ExportTypeChoices
    /\ \E n \in 0..MaxKeys : all_ebd_keys = SubSeq(KeyPool, 1, n)
    /\ \/ dir_exists = FALSE /\ files = NoFiles /\ subdirs = {}
       \/ dir_exists = TRUE /\ files = StaleFiles /\ subdirs = StaleSubdirs
    /\ pc = "start"
    /\ idx = 0
    /\ docx_tables = Unbound
    /\ ebd_table = Unbound
    /\ ebd_graph = Unbound
    /\ error_sources = <<>>
    /\ sorted_errors = <<>>
    /\ out = <<>>
    /\ calls = <<>>
    /\ raised = None
    /\ run = 1
    /\ first = NoFirstRun

\* ------------------------------------------------------------------ actions

\* Startup mutated: Settings() is constructed after the output directory has
\* been cleared and created.
Startup_settings_late ==
    /\ pc = "start"
    /\ files' = unlink_files(files, dir_exists)
    /\ dir_exists' = TRUE
    /\ out' = out
         \o (IF dir_exists THEN <<[line |-> "dir_exists"]>> ELSE <<>>)
         \o <<[line |-> "created_dir"]>>
    /\ IF ~settings_valid(env)
       THEN /\ pc' = "crashed"
            /\ raised' = "ValidationError"
            /\ UNCHANGED idx
       ELSE /\ idx' = 1
            /\ pc' = "for"
            /\ UNCHANGED raised
    /\ UNCHANGED <<env, export_types, all_ebd_keys, subdirs, docx_tables, ebd_table,
                   ebd_graph, error_sources, sorted_errors, calls>>
    /\ UNCHANGED <<run, first>>

\* Startup mutated: mkdir without exist_ok, so that an output directory that
\* exists already makes the run fail after its files have been removed.
Startup_mkdir_exclusive ==
    /\ pc = "start"
    /\ IF ~settings_valid(env)
       THEN /\ pc' = "crashed"
            /\ raised' = "ValidationError"
            /\ UNCHANGED <<dir_exists, files, out, idx>>
       ELSE IF dir_exists
       THEN /\ files' = unlink_files(files, dir_exists)
            /\ out' = Append(out, [line |-> "dir_exists"])
            /\ pc' = "crashed"
            /\ raised' = "FileExistsError"
            /\ UNCHANGED <<dir_exists, idx>>
       ELSE /\ dir_exists' = TRUE
            /\ out' = Append(out, [line |-> "created_dir"])
            /\ idx' = 1
            /\ pc' = "for"
            /\ UNCHANGED <<files, raised>>
    /\ UNCHANGED <<env, export_types, all_ebd_keys, subdirs, docx_tables, ebd_table,
                   ebd_graph, error_sources, sorted_errors, calls>>
    /\ UNCHANGED <<run, first>>

\* Lines 132-143: settings, the rendering client, the output directory, the
\* keys of the document, the empty ledger.
Startup ==
    /\ pc = "start"
    /\ IF ~settings_valid(env)
       THEN /\ pc' = "crashed"
            /\ raised' = "ValidationError"
            /\ UNCHANGED <<dir_exists, files, out, idx>>
       ELSE /\ files' = unlink_files(files, dir_exists)
            /\ dir_exists' = TRUE
            /\ out' = out
                 \o (IF dir_exists THEN <<[line |-> "dir_exists"]>> ELSE <<>>)
                 \o <<[line |-> "created_dir"]>>
            /\ idx' = 1
            /\ pc' = "for"
            /\ UNCHANGED raised
    /\ UNCHANGED <<env, export_types, all_ebd_keys, subdirs, docx_tables, ebd_table,
                   ebd_graph, error_sources, sorted_errors, calls>>
    /\ UNCHANGED <<run, first>>

\* ForNext mutated: the for statement takes the next key without printing
\* the progress line.
ForNext_no_progress ==
    /\ pc = "for"
    /\ IF idx <= Len(all_ebd_keys)
       THEN pc' = "extract"
       ELSE pc' = "summary"
    /\ UNCHANGED <<env, export_types, all_ebd_keys, dir_exists, files, subdirs, idx,
                   docx_tables, ebd_table, ebd_graph, error_sources, sorted_errors,
                   out, calls, raised>>
    /\ UNCHANGED <<run, first>>

\* Lines 154-156: the for statement takes the next key and prints the
\* progress line, or the loop ends.
ForNext ==
    /\ pc = "for"
    /\ IF idx <= Len(all_ebd_keys)
       THEN /\ out' = Append(out, [line |-> "progress", key |-> ebd_key])
            /\ pc' = "extract"
       ELSE /\ pc' = "summary"
            /\ UNCHANGED out
    /\ UNCHANGED <<env, export_types, all_ebd_keys, dir_exists, files, subdirs, idx,
                   docx_tables, ebd_table, ebd_graph, error_sources, sorted_errors,
                   calls, raised>>
    /\ UNCHANGED <<run, first>>

\* Lines 157-166: get_ebd_docx_tables and its two except clauses.
Extract ==
    /\ pc = "extract"
    /\ \/ \E value \in ReplayedValues(ebd_key, ExtractValues) :
            /\ Call("get_ebd_docx_tables", "ok", value)
            /\ docx_tables' = value
            /\ Goto(next_stage("extract"))
            /\ UNCHANGED <<error_sources, out, raised>>
       \/ \E error \in Replayed("get_ebd_docx_tables", ebd_key, ExtractErrors) :
            /\ Call("get_ebd_docx_tables", error, Unbound)
            /\ IF error \in {"TableNotFoundError", "EbdTableNotConvertibleError"}
               THEN Handle("extract", error, "SCRAPING") /\ UNCHANGED raised
               ELSE Escape(error) /\ UNCHANGED <<error_sources, out>>
            /\ UNCHANGED docx_tables
    /\ UNCHANGED <<env, export_types, all_ebd_keys, dir_exists, files, subdirs,
                   ebd_table, ebd_graph, sorted_errors>>
    /\ UNCHANGED <<run, first>>

\* Lines 167-192: the metadata-only table of an EbdNoTableSection, or the
\* DocxTableConverter, under "except Exception".
Normalize ==
    /\ pc = "normalize"
    /\ IF docx_tables.kind = "no_table"
       THEN /\ Call("EbdTable", "ok", metadata_only_table(ebd_key, docx_tables))
            /\ ebd_table' = metadata_only_table(ebd_key, docx_tables)
            /\ Goto(next_stage("normalize"))
            /\ UNCHANGED <<error_sources, out>>
       ELSE \E result \in Replayed("convert_docx_tables_to_ebd_table", ebd_key, ConvertResults) :
            /\ Call("convert_docx_tables_to_ebd_table", result,
                    IF result = "ok" THEN converted_table(ebd_key, docx_tables)
                    ELSE Unbound)
            /\ IF result = "ok"
               THEN /\ ebd_table' = converted_table(ebd_key, docx_tables)
                    /\ Goto(next_stage("normalize"))
                    /\ UNCHANGED <<error_sources, out>>
               ELSE /\ Handle("normalize", result, "SCRAPING")
                    /\ UNCHANGED ebd_table
    /\ UNCHANGED <<env, export_types, all_ebd_keys, dir_exists, files, subdirs,
                   docx_tables, ebd_graph, sorted_errors, raised>>
    /\ UNCHANGED <<run, first>>

\* Lines 193-196: _dump_json, outside every try block.
DumpJson ==
    /\ pc = "json"
    /\ IF "json" \in export_types
       THEN \E result \in Replayed("_dump_json", ebd_key, DumpJsonResults) :
            /\ Call("_dump_json", result, Unbound)
            /\ IF result = "ok"
               THEN /\ files' = write_file(files, <<ebd_key, "json">>,
                                           [kind |-> "json", value |-> ebd_table])
                    /\ out' = Append(out, exported_line("json"))
                    /\ Goto(next_stage("json"))
                    /\ UNCHANGED raised
               ELSE /\ Escape(result)
                    /\ UNCHANGED <<files, out>>
       ELSE /\ Goto(next_stage("json"))
            /\ UNCHANGED <<files, out, calls, raised>>
    /\ UNCHANGED <<env, export_types, all_ebd_keys, dir_exists, subdirs, docx_tables,
                   ebd_table, ebd_graph, error_sources, sorted_errors>>
    /\ UNCHANGED <<run, first>>

\* GraphConversion mutated: the graph is built only if an export that needs it
\* was asked for; otherwise the iteration ends after the json stage.
GraphConversion_only_for_exports ==
    /\ pc = "graph"
    /\ IF export_types \cap {"puml", "dot", "svg"} = {}
       THEN /\ Goto("continue")
            /\ UNCHANGED <<ebd_graph, error_sources, out, calls>>
       ELSE \E result \in Replayed("convert_table_to_graph", ebd_key, GraphResults) :
            /\ Call("convert_table_to_graph", result,
                    IF result = "ok" THEN graph_of(ebd_table) ELSE Unbound)
            /\ IF result = "ok"
               THEN /\ ebd_graph' = graph_of(ebd_table)
                    /\ Goto(next_stage("graph"))
                    /\ UNCHANGED <<error_sources, out>>
               ELSE /\ Handle("graph", result, "GRAPH_CONVERSION")
                    /\ UNCHANGED ebd_graph
    /\ UNCHANGED <<env, export_types, all_ebd_keys, dir_exists, files, subdirs,
                   docx_tables, ebd_table, sorted_errors, raised>>
    /\ UNCHANGED <<run, first>>

\* Lines 197-204: convert_table_to_graph under GraphConversionError and Exception.
GraphConversion ==
    /\ pc = "graph"
    /\ \E result \in Replayed("convert_table_to_graph", ebd_key, GraphResults) :
        /\ Call("convert_table_to_graph", result,
                IF result = "ok" THEN graph_of(ebd_table) ELSE Unbound)
        /\ IF result = "ok"
           THEN /\ ebd_graph' = graph_of(ebd_table)
                /\ Goto(next_stage("graph"))
                /\ UNCHANGED <<error_sources, out>>
           ELSE /\ Handle("graph", result, "GRAPH_CONVERSION")
                /\ UNCHANGED ebd_graph
    /\ UNCHANGED <<env, export_types, all_ebd_keys, dir_exists, files, subdirs,
                   docx_tables, ebd_table, sorted_errors, raised>>
    /\ UNCHANGED <<run, first>>

\* Lines 205-216: the puml export, skipped for a table without rows.
Puml ==
    /\ pc = "puml"
    /\ IF "puml" \notin export_types
       THEN /\ Goto(next_stage("puml"))
            /\ UNCHANGED <<files, out, calls, error_sources>>
       ELSE IF puml_skipped(ebd_table)
       THEN /\ out' = Append(out, [line |-> "skip_puml", key |-> ebd_key])
            /\ Goto(next_stage("puml"))
            /\ UNCHANGED <<files, calls, error_sources>>
       ELSE \E result \in Replayed("_dump_puml", ebd_key, PumlResults) :
            /\ Call("_dump_puml", result, Unbound)
            /\ IF result = "ok"
               THEN /\ files' = write_file(files, <<ebd_key, "puml">>,
                                           [kind |-> "puml", value |-> ebd_graph])
                    /\ out' = Append(out, exported_line("puml"))
                    /\ Goto(next_stage("puml"))
                    /\ UNCHANGED error_sources
               ELSE /\ Handle("puml", result, "PUML_EXPORT")
                    /\ UNCHANGED files
    /\ UNCHANGED <<env, export_types, all_ebd_keys, dir_exists, subdirs, docx_tables,
                   ebd_table, ebd_graph, sorted_errors, raised>>
    /\ UNCHANGED <<run, first>>

\* Lines 218-222 and 227-231: the dot export, first statement of the common
\* try block of dot and svg.
Dot ==
    /\ pc = "dot"
    /\ IF "dot" \notin export_types
       THEN /\ Goto(next_stage("dot"))
            /\ UNCHANGED <<files, out, calls, error_sources>>
       ELSE \E result \in Replayed("_dump_dot", ebd_key, DotResults) :
            /\ Call("_dump_dot", result, Unbound)
            /\ IF result = "ok"
               THEN /\ files' = write_file(files, <<ebd_key, "dot">>,
                                           [kind |-> "dot", value |-> ebd_graph])
                    /\ out' = Append(out, exported_line("dot"))
                    /\ Goto(next_stage("dot"))
                    /\ UNCHANGED error_sources
               ELSE /\ Handle("dot", result, "SVG_EXPORT")
                    /\ UNCHANGED files
    /\ UNCHANGED <<env, export_types, all_ebd_keys, dir_exists, subdirs, docx_tables,
                   ebd_table, ebd_graph, sorted_errors, raised>>
    /\ UNCHANGED <<run, first>>

\* Lines 223-231: the svg export through kroki, second statement of the try block.
Svg ==
    /\ pc = "svg"
    /\ IF "svg" \notin export_types
       THEN /\ Goto(next_stage("svg"))
            /\ UNCHANGED <<files, out, calls, error_sources>>
       ELSE \E result \in Replayed("_dump_svg", ebd_key, SvgResults) :
            /\ Call("_dump_svg", result, Unbound)
            /\ IF result = "ok"
               THEN /\ files' = write_file(files, <<ebd_key, "svg">>,
                                           [kind |-> "svg", value |-> ebd_graph])
                    /\ out' = Append(out, exported_line("svg"))
                    /\ Goto(next_stage("svg"))
                    /\ UNCHANGED error_sources
               ELSE /\ Handle("svg", result, "SVG_EXPORT")
                    /\ UNCHANGED files
    /\ UNCHANGED <<env, export_types, all_ebd_keys, dir_exists, subdirs, docx_tables,
                   ebd_table, ebd_graph, sorted_errors, raised>>
    /\ UNCHANGED <<run, first>>

\* Lines 232-235: the sorted ledger and the completion marker.
Summary ==
    /\ pc = "summary"
    /\ sorted_errors' = sorted(error_sources)
    /\ out' = out \o <<[line |-> "summary" ], [line |-> "finished"]>>
    /\ pc' = "done"
    /\ UNCHANGED <<env, export_types, all_ebd_keys, dir_exists, files, subdirs, idx,
                   docx_tables, ebd_table, ebd_graph, error_sources, calls, raised>>
    /\ UNCHANGED <<run, first>>

Next ==
    \/ Startup
    \/ ForNext
    \/ Extract
    \/ Normalize
    \/ DumpJson
    \/ GraphConversion
    \/ Puml
    \/ Dot
    \/ Svg
    \/ Summary

Spec == Init /\ [][Next]_vars

\* The command is invoked again with the same options, environment, document
\* and output directory, after the first invocation has ended (normally or
\* with an exception): a new process, with the directory as it was left.
\* The second invocation is followed for the runs that ask for the json
\* export; without it neither invocation calls _dump_json.
Rerun ==
    /\ run = 1
    /\ pc \in {"done", "crashed"}
    /\ "json" \in export_types
    /\ run' = 2
    /\ first' = [files |-> files, calls |-> calls, pc |-> pc]
    /\ pc' = "start"
    /\ idx' = 0
    /\ docx_tables' = Unbound
    /\ ebd_table' = Unbound
    /\ ebd_graph' = Unbound
    /\ error_sources' = <<>>
    /\ sorted_errors' = <<>>
    /\ out' = <<>>
    /\ calls' = <<>>
    /\ raised' = None
    /\ UNCHANGED <<env, export_types, all_ebd_keys, dir_exists, files, subdirs>>

NextRerun ==
    \/ Next
    \/ Rerun

\* The runs of the command followed by one re-run.
SpecRerun == Init /\ [][NextRerun]_vars

\* ------------------------------------------------------------------ reading the state

Keys == {all_ebd_keys[i] : i \in 1..Len(all_ebd_keys)}

KeyIndex(k) == CHOOSE i \in 1..Len(all_ebd_keys) : all_ebd_keys[i] = k

\* The loop body has ended for key k.
Finished(k) == pc \in {"for", "extract", "normalize", "json", "graph", "puml", "dot",
                       "svg", "summary", "done"} /\ KeyIndex(k) < idx

Called(fn, k, result) ==
    \E i \in 1..Len(calls) : calls[i].fn = fn /\ calls[i].key = k /\ calls[i].result = result

Attempted(fn, k) == \E i \in 1..Len(calls) : calls[i].fn = fn /\ calls[i].key = k

FailedCall(fn, k) ==
    \E i \in 1..Len(calls) : calls[i].fn = fn /\ calls[i].key = k /\ calls[i].result # "ok"

ExportCalls == {"_dump_puml", "_dump_dot", "_dump_svg"}

\* "[<severity>:<stage>] " as text, for every severity and stage
KeyPrefixes ==
    [severity \in {"ERROR", "WARNING"},
     stage \in {"scraping", "graph_conversion", "puml_export", "svg_export"} |->
        CodePoints("[") \o CodePoints(severity) \o CodePoints(":") \o CodePoints(stage)
            \o CodePoints("] ")]

KeyPrefix(severity, stage) == KeyPrefixes[severity, stage]

\* The places <<i, j>> of a ledger where k stands in a list whose key starts with prefix.
Entries(ledger, k, prefix) ==
    {<<i, j>> \in (1..Len(ledger)) \X (1..MaxKeys + 1) :
        /\ j <= Len(ledger[i][2])
        /\ ledger[i][2][j] = k
        /\ startswith(ledger[i][1], prefix)}

\* k stands in the list of exactly this ledger key.
Listed(ledger, k, key) ==
    \E i \in 1..Len(ledger) :
        ledger[i][1] = key /\ \E j \in 1..Len(ledger[i][2]) : ledger[i][2][j] = k

FilesOf(k) == {n \in DOMAIN files : n[1] = k /\ files[n].kind # "stale"}

\* The call i is a scraping failure that _main catches.
ScrapingFailure(i) ==
    \/ /\ calls[i].fn = "get_ebd_docx_tables"
       /\ calls[i].result \in {"TableNotFoundError", "EbdTableNotConvertibleError"}
    \/ /\ calls[i].fn = "convert_docx_tables_to_ebd_table"
       /\ calls[i].result # "ok"

\* ------------------------------------------------------------------ C1

\* C1: with valid settings no exception leaves _main: whatever a stage raises
\* for a key is caught and the run ends with the ledger and the completion marker.
C1_OnlyConfigurationErrorsEscape ==
    settings_valid(env) =>
        /\ pc # "crashed"
        /\ pc = "done" =>
              /\ Len(out) >= 2
              /\ out[Len(out) - 1].line = "summary"
              /\ out[Len(out)].line = "finished"

\* ------------------------------------------------------------------ C2

\* C2: a key whose extraction raises TableNotFoundError or
\* EbdTableNotConvertibleError, or whose normalization raises anything, stands
\* exactly once in the lists of the scraping keys, no later call is made for
\* it and no file of it is written.
C2_ScrapingFailureSkipsKey ==
    \A i \in 1..Len(calls) :
        ScrapingFailure(i) =>
            /\ Cardinality(Entries(error_sources, calls[i].key,
                                   KeyPrefix("ERROR", "scraping"))) = 1
            /\ Listed(error_sources, calls[i].key,
                      KeyPrefix("ERROR", "scraping") \o CodePoints(calls[i].result))
            /\ \A j \in 1..Len(calls) : j > i => calls[j].key # calls[i].key
            /\ FilesOf(calls[i].key) = {}

\* C2 witness: a finished run with every export type asked for in which one
\* key failed in extraction and another in normalization.
C2_Witness ==
    /\ pc = "done"
    /\ export_types = ExportTypeChoices
    /\ \E i \in 1..Len(calls) :
          calls[i].fn = "get_ebd_docx_tables" /\ calls[i].result = "TableNotFoundError"
    /\ \E i \in 1..Len(calls) :
          calls[i].fn = "convert_docx_tables_to_ebd_table" /\ calls[i].result = "ValueError"

\* ------------------------------------------------------------------ C3

\* C3: a key whose graph conversion raises (GraphConversionError or anything
\* else) stands in the list of the graph-conversion key of that exception, has
\* no .puml, .dot or .svg file, and keeps the .json file written before.
C3_GraphFailureKeepsJsonOnly ==
    \A k \in Keys :
        FailedCall("convert_table_to_graph", k) =>
            /\ \E i \in 1..Len(calls) :
                  /\ calls[i].fn = "convert_table_to_graph" /\ calls[i].key = k
                  /\ Listed(error_sources, k,
                            KeyPrefix("ERROR", "graph_conversion")
                                \o CodePoints(calls[i].result))
            /\ \A ext \in {"puml", "dot", "svg"} : <<k, ext>> \notin FilesOf(k)
            /\ "json" \in export_types =>
                  /\ <<k, "json">> \in DOMAIN files
                  /\ files[<<k, "json">>].kind = "json"

\* C3 witness: a finished run with every export type asked for, where the
\* graph conversion of one key raised GraphConversionError and that of
\* another key some other exception, and the first key has its .json file.
C3_Witness ==
    /\ pc = "done"
    /\ export_types = ExportTypeChoices
    /\ \E k1, k2 \in Keys :
          /\ Called("convert_table_to_graph", k1, "GraphConversionError")
          /\ Called("convert_table_to_graph", k2, "KeyError")
          /\ <<k1, "json">> \in FilesOf(k1)

\* ------------------------------------------------------------------ C4

\* C4: a key whose puml export raises stands in the list of the
\* WARNING:puml_export key of that exception, and for every key whose graph
\* conversion succeeded the dot/svg block is entered whether or not the puml
\* export failed: its first requested export (dot, else svg) is attempted.
C4_PumlFailureIsAdvisory ==
    \A k \in Keys :
        /\ \A i \in 1..Len(calls) :
              (calls[i].fn = "_dump_puml" /\ calls[i].key = k /\ calls[i].result # "ok") =>
                  Listed(error_sources, k,
                         KeyPrefix("WARNING", "puml_export") \o CodePoints(calls[i].result))
        /\ (Finished(k) /\ Called("convert_table_to_graph", k, "ok")) =>
              /\ "dot" \in export_types => Attempted("_dump_dot", k)
              /\ ("svg" \in export_types /\ "dot" \notin export_types) =>
                    Attempted("_dump_svg", k)

\* C4 witness: the puml export of a key failed and its dot export was
\* attempted afterwards.
C4_Witness ==
    \E i, j \in 1..Len(calls) :
        /\ i < j
        /\ calls[i].fn = "_dump_puml" /\ calls[i].result = "PlantumlConversionError"
        /\ calls[j].fn = "_dump_dot" /\ calls[j].key = calls[i].key
        /\ Finished(calls[i].key)

\* ------------------------------------------------------------------ C5

\* The key k got the no-table marker from the extraction.
NoTableMarker(k) ==
    \E i \in 1..Len(calls) :
        /\ calls[i].fn = "get_ebd_docx_tables" /\ calls[i].key = k
        /\ calls[i].result = "ok" /\ calls[i].returned.kind = "no_table"

\* The .json file of k holds a table without rows and with a non-empty remark.
JsonIsMetadataOnly(k) ==
    /\ <<k, "json">> \in DOMAIN files
    /\ files[<<k, "json">>].kind = "json"
    /\ files[<<k, "json">>].value.rows = 0
    /\ files[<<k, "json">>].value.remark \notin {None, ""}

\* C5 as stated: for a key with the no-table marker and json requested, the
\* .json file has zero rows and a non-empty remark, and neither puml nor dot
\* nor svg is attempted.
C5_NoOtherOutputAttempted ==
    \A k \in Keys :
        (NoTableMarker(k) /\ "json" \in export_types) =>
            /\ Called("_dump_json", k, "ok") => JsonIsMetadataOnly(k)
            /\ \A fn \in ExportCalls : ~Attempted(fn, k)

\* C5 amended: for a key with the no-table marker and json requested, the
\* .json file has zero rows and a non-empty remark, and the puml export is
\* not attempted and leaves no file (dot and svg are attempted like for any key).
C5_MetadataOnlyJsonNoPuml ==
    \A k \in Keys :
        (NoTableMarker(k) /\ "json" \in export_types) =>
            /\ Called("_dump_json", k, "ok") => JsonIsMetadataOnly(k)
            /\ Attempted("convert_table_to_graph", k) => Called("_dump_json", k, "ok")
            /\ ~Attempted("_dump_puml", k)
            /\ <<k, "puml">> \notin FilesOf(k)

\* C5 witness: a key with the no-table marker whose .json file is written,
\* with puml requested too, and whose dot export was attempted.
C5_Witness ==
    \E k \in Keys :
        /\ NoTableMarker(k)
        /\ {"json", "puml"} \subseteq export_types
        /\ Called("_dump_json", k, "ok")
        /\ Attempted("_dump_dot", k)
        /\ Finished(k)

\* ------------------------------------------------------------------ C6

\* The normalized table of k has no rows.
ZeroRowTable(k) ==
    \E i \in 1..Len(calls) :
        /\ calls[i].fn \in {"EbdTable", "convert_docx_tables_to_ebd_table"}
        /\ calls[i].key = k /\ calls[i].result = "ok" /\ calls[i].returned.rows = 0

\* C6 as stated: with puml requested, a key whose table has no rows gets no
\* .puml file and stands nowhere in the ledger.
C6_NoErrorAtAll ==
    \A k \in Keys :
        (ZeroRowTable(k) /\ "puml" \in export_types) =>
            /\ <<k, "puml">> \notin FilesOf(k)
            /\ Entries(error_sources, k, <<>>) = {}

\* C6 amended: with puml requested, a key whose table has no rows gets no
\* .puml file and the puml stage files no error for it: it stands in no list
\* of a WARNING:puml_export key (failures of its other stages are filed).
C6_ZeroRowsSkipPuml ==
    \A k \in Keys :
        (ZeroRowTable(k) /\ "puml" \in export_types) =>
            /\ <<k, "puml">> \notin FilesOf(k)
            /\ ~Attempted("_dump_puml", k)
            /\ Entries(error_sources, k, KeyPrefix("WARNING", "puml_export")) = {}

\* C6 witness: a key with a table without rows went past the puml stage with
\* puml requested, after a successful graph conversion, and the skip was printed.
C6_Witness ==
    \E k \in Keys :
        /\ ZeroRowTable(k)
        /\ "puml" \in export_types
        /\ Called("convert_table_to_graph", k, "ok")
        /\ Finished(k)
        /\ \E i \in 1..Len(out) : out[i].line = "skip_puml" /\ out[i].key = k

\* ------------------------------------------------------------------ C7

\* The normalization of k succeeded at call i.
NormalizedAt(i) ==
    /\ calls[i].fn \in {"EbdTable", "convert_docx_tables_to_ebd_table"}
    /\ calls[i].result = "ok"

\* C7: with json requested, the json export is the step that follows a
\* successful normalization (also one without rows): it is made before the
\* graph conversion is attempted, and the file then holds the normalized
\* table in every later state, whatever the later stages of the key do.
C7_JsonRightAfterNormalization ==
    "json" \in export_types =>
        \A i \in 1..Len(calls) :
            NormalizedAt(i) =>
                /\ i = Len(calls) => pc = "json" /\ ebd_key = calls[i].key
                /\ i < Len(calls) =>
                      /\ calls[i + 1].fn = "_dump_json"
                      /\ calls[i + 1].key = calls[i].key
                /\ (i < Len(calls) /\ calls[i + 1].result = "ok") =>
                      /\ <<calls[i].key, "json">> \in DOMAIN files
                      /\ files[<<calls[i].key, "json">>] =
                            [kind |-> "json", value |-> calls[i].returned]
                /\ Attempted("convert_table_to_graph", calls[i].key) =>
                      <<calls[i].key, "json">> \in FilesOf(calls[i].key)

\* C7 witness: a finished run in which the .json file of a key with a table
\* without rows exists although its graph conversion failed, and the .json
\* file of another key exists although its svg export failed.
C7_Witness ==
    /\ pc = "done"
    /\ \E k1, k2 \in Keys :
          /\ ZeroRowTable(k1)
          /\ FailedCall("convert_table_to_graph", k1)
          /\ <<k1, "json">> \in FilesOf(k1)
          /\ FailedCall("_dump_svg", k2)
          /\ <<k2, "json">> \in FilesOf(k2)

\* ------------------------------------------------------------------ C8

\* The normalized table of k has at least one row.
HasRows(k) ==
    \E i \in 1..Len(calls) :
        /\ NormalizedAt(i) /\ calls[i].key = k /\ calls[i].returned.rows >= 1

\* C8: in every state a file this run wrote has its prerequisites: a .puml
\* file only with puml requested, the graph converted and a table with rows;
\* a .dot file only with dot requested and the graph converted; a .svg file
\* only with svg requested, the graph converted and the rendering succeeded.
C8_ArtifactPrerequisites ==
    \A n \in DOMAIN files :
        files[n].kind # "stale" =>
            /\ n[2] \in {"json", "puml", "dot", "svg"}
            /\ n[2] = "puml" =>
                  /\ "puml" \in export_types
                  /\ Called("convert_table_to_graph", n[1], "ok")
                  /\ HasRows(n[1])
            /\ n[2] = "dot" =>
                  /\ "dot" \in export_types
                  /\ Called("convert_table_to_graph", n[1], "ok")
            /\ n[2] = "svg" =>
                  /\ "svg" \in export_types
                  /\ Called("convert_table_to_graph", n[1], "ok")
                  /\ Called("_dump_svg", n[1], "ok")

\* C8 witness: one key has its .puml, .dot and .svg files while the graph
\* conversion of another key has failed.
C8_Witness ==
    \E k1, k2 \in Keys :
        /\ {<<k1, "puml">>, <<k1, "dot">>, <<k1, "svg">>} \subseteq FilesOf(k1)
        /\ FailedCall("convert_table_to_graph", k2)
        /\ Finished(k2)

\* ------------------------------------------------------------------ C9

IsErrorKey(key) ==
    startswith(key, CodePoints("[") \o CodePoints("ERROR") \o CodePoints(":"))

IsWarningKey(key) ==
    startswith(key, CodePoints("[") \o CodePoints("WARNING") \o CodePoints(":"))

\* C9: the printed summary holds the items of the ledger, every ERROR key
\* before every WARNING key, and the keys of one severity in ascending
\* lexicographic order, so that the order is fixed by the set of keys alone.
C9_SummaryOrder ==
    pc = "done" =>
        /\ Len(sorted_errors) = Len(error_sources)
        /\ {sorted_errors[i] : i \in 1..Len(sorted_errors)}
              = {error_sources[i] : i \in 1..Len(error_sources)}
        /\ \A i, j \in 1..Len(sorted_errors) :
              i < j =>
                  /\ ~(IsWarningKey(sorted_errors[i][1]) /\ IsErrorKey(sorted_errors[j][1]))
                  /\ (IsErrorKey(sorted_errors[i][1]) <=> IsErrorKey(sorted_errors[j][1])) =>
                        str_lt(sorted_errors[i][1], sorted_errors[j][1])

\* C9 witness: a summary of at least three keys, a WARNING key and ERROR keys
\* among them, whose order differs from the order the failures occurred in.
C9_Witness ==
    /\ pc = "done"
    /\ Len(sorted_errors) >= 3
    /\ IsWarningKey(error_sources[1][1])
    /\ IsErrorKey(error_sources[2][1])
    /\ IsErrorKey(error_sources[3][1])
    /\ str_lt(error_sources[3][1], error_sources[2][1])
    /\ sorted_errors # error_sources

\* ------------------------------------------------------------------ C10

\* The severity and the stage the ledger key of a failed call is to carry.
SeverityOf(fn) == IF fn = "_dump_puml" THEN "WARNING" ELSE "ERROR"

StageOf(fn) ==
  CASE fn \in {"get_ebd_docx_tables", "convert_docx_tables_to_ebd_table"} -> "scraping"
    [] fn = "convert_table_to_graph" -> "graph_conversion"
    [] fn = "_dump_puml" -> "puml_export"
    [] fn \in {"_dump_dot", "_dump_svg"} -> "svg_export"

\* The number of identifiers in all lists of a ledger.
RECURSIVE LedgerSize(_)
LedgerSize(ledger) ==
    IF ledger = <<>> THEN 0 ELSE Len(Head(ledger)[2]) + LedgerSize(Tail(ledger))

\* Every list of the ledger holds its keys in the order of the for loop.
InProcessingOrder(ledger) ==
    \A i \in 1..Len(ledger) :
        \A a, b \in 1..Len(ledger[i][2]) :
            a < b => KeyIndex(ledger[i][2][a]) < KeyIndex(ledger[i][2][b])

\* A step leaves every list of the ledger a prefix of what it becomes.
ListsOnlyGrow ==
    /\ Len(error_sources') >= Len(error_sources)
    /\ \A i \in 1..Len(error_sources) :
          /\ error_sources'[i][1] = error_sources[i][1]
          /\ Len(error_sources'[i][2]) >= Len(error_sources[i][2])
          /\ SubSeq(error_sources'[i][2], 1, Len(error_sources[i][2])) = error_sources[i][2]

\* The step made a call that raised an exception which _main caught.
CaughtFailure ==
    /\ Len(calls') = Len(calls) + 1
    /\ calls'[Len(calls')].result # "ok"
    /\ pc' # "crashed"

\* C10: a step in which a call fails and is caught appends the key of the for
\* loop to the list of "[severity:stage] exception name" (ERROR for scraping,
\* graph conversion and dot/svg, WARNING for puml) and adds nothing else; no
\* other step changes the ledger; lists only grow and stay in processing order.
C10_LedgerAppends ==
    [][/\ ListsOnlyGrow
       /\ InProcessingOrder(error_sources')
       /\ IF CaughtFailure
          THEN LET c == calls'[Len(calls')]
                   key == KeyPrefix(SeverityOf(c.fn), StageOf(c.fn)) \o CodePoints(c.result)
               IN  /\ LedgerSize(error_sources') = LedgerSize(error_sources) + 1
                   /\ \E i \in 1..Len(error_sources') :
                         /\ error_sources'[i][1] = key
                         /\ error_sources'[i][2] # <<>>
                         /\ error_sources'[i][2][Len(error_sources'[i][2])] = c.key
          ELSE error_sources' = error_sources]_vars

\* C10 witness: a ledger with a list of two keys and both a WARNING and an
\* ERROR key.
C10_Witness ==
    /\ \E i \in 1..Len(error_sources) : Len(error_sources[i][2]) = 2
    /\ \E i \in 1..Len(error_sources) : IsWarningKey(error_sources[i][1])
    /\ \E i \in 1..Len(error_sources) : IsErrorKey(error_sources[i][1])

\* ------------------------------------------------------------------ C11

\* The output directory as an invocation that has not touched it finds it:
\* absent, or with the files and sub-directories an earlier run left.
DirectoryUntouched ==
    \/ ~dir_exists /\ files = NoFiles /\ subdirs = {}
    \/ dir_exists /\ files = StaleFiles /\ subdirs = StaleSubdirs

\* C11: with KROKI_HOST or KROKI_PORT missing, or a port that is no integer,
\* _main ends at startup with a validation error: the output directory is
\* neither cleared nor created, no key is processed and nothing is printed.
C11_SettingsFailFirst ==
    (run = 1 /\ pc # "start"
        /\ (env.KROKI_HOST = None \/ env.KROKI_PORT \in {None, "not_an_integer"})) =>
        /\ pc = "crashed"
        /\ raised = "ValidationError"
        /\ DirectoryUntouched
        /\ idx = 0
        /\ calls = <<>>
        /\ out = <<>>
        /\ error_sources = <<>>

\* C11 witness: startup has failed on a port that is no integer, with an
\* output directory that holds files of an earlier run.
C11_Witness ==
    /\ pc = "crashed"
    /\ raised = "ValidationError"
    /\ env = [KROKI_HOST |-> "localhost", KROKI_PORT |-> "not_an_integer"]
    /\ dir_exists
    /\ files = StaleFiles
    /\ all_ebd_keys # <<>>

\* ------------------------------------------------------------------ C12

\* Every call made so far returned without raising.
EveryStageSucceeded == \A i \in 1..Len(calls) : calls[i].result = "ok"

\* The extraction of k returned tables with the given number of rows.
ExtractedRows(k, n) ==
    \E i \in 1..Len(calls) :
        /\ calls[i].fn = "get_ebd_docx_tables" /\ calls[i].key = k
        /\ calls[i].returned.kind = "tables" /\ calls[i].returned.rows = n

\* C12: a finished run over a document with one key whose table has rows
\* (three in the scenario), with json, puml, dot and svg asked for and no call
\* raising, leaves exactly the files <key>.json, .puml, .dot and .svg in the
\* output directory, and both the ledger and the printed summary are empty.
C12_OneKeyAllFourFiles ==
    (/\ run = 1
     /\ pc = "done"
     /\ Len(all_ebd_keys) = 1
     /\ export_types = {"json", "puml", "dot", "svg"}
     /\ EveryStageSucceeded
     /\ ExtractedRows(all_ebd_keys[1], NumRows)) =>
        /\ DOMAIN files = {all_ebd_keys[1]} \X {"json", "puml", "dot", "svg"}
        /\ \A n \in DOMAIN files : files[n].kind = n[2]
        /\ error_sources = <<>>
        /\ sorted_errors = <<>>

\* C12 witness: the scenario has run to its end, started on a directory that
\* did not exist.
C12_Witness ==
    /\ pc = "done"
    /\ ~(\E i \in 1..Len(out) : out[i].line = "dir_exists")
    /\ Len(all_ebd_keys) = 1
    /\ export_types = {"json", "puml", "dot", "svg"}
    /\ EveryStageSucceeded
    /\ ExtractedRows(all_ebd_keys[1], NumRows)
    /\ <<all_ebd_keys[1], "svg">> \in DOMAIN files

\* ------------------------------------------------------------------ C13

\* The place of a call in the loop body (lines 157-231).
StageRank(fn) ==
    CASE fn = "get_ebd_docx_tables" -> 1
      [] fn \in {"EbdTable", "convert_docx_tables_to_ebd_table"} -> 2
      [] fn = "_dump_json" -> 3
      [] fn = "convert_table_to_graph" -> 4
      [] fn = "_dump_puml" -> 5
      [] fn = "_dump_dot" -> 6
      [] fn = "_dump_svg" -> 7

\* C13: the calls of a run follow the keys in the order of all_ebd_keys and,
\* within a key, the order of the stages, strictly: no stage is called twice
\* for a key, no call for a key follows a call for a later key, and the
\* latest call (hence every call) is for the key of the current iteration or
\* an earlier one. Every key whose iteration has ended had its extraction
\* called.
C13_OneKeyAtATimeNoRetry ==
    /\ \A i \in 1..Len(calls) - 1 :
          IF calls[i].key = calls[i + 1].key
          THEN StageRank(calls[i].fn) < StageRank(calls[i + 1].fn)
          ELSE KeyIndex(calls[i].key) < KeyIndex(calls[i + 1].key)
    /\ calls # <<>> =>
          /\ calls[1].key \in Keys
          /\ calls[Len(calls)].key \in Keys
          /\ KeyIndex(calls[Len(calls)].key) <= idx
          /\ pc \in {"for", "summary", "done"} => KeyIndex(calls[Len(calls)].key) < idx
    /\ \A k \in Keys : Finished(k) => Attempted("get_ebd_docx_tables", k)
    /\ pc = "done" => idx = Len(all_ebd_keys) + 1

\* C13 witness: a finished run over two keys in which the first key failed in
\* its puml export and still went through all seven stages, and the second
\* key was extracted after the svg export of the first.
C13_Witness ==
    /\ pc = "done"
    /\ Len(all_ebd_keys) = 2
    /\ FailedCall("_dump_puml", all_ebd_keys[1])
    /\ \E i \in 1..Len(calls) - 1 :
          /\ calls[i].fn = "_dump_svg" /\ calls[i].key = all_ebd_keys[1]
          /\ calls[i + 1].fn = "get_ebd_docx_tables" /\ calls[i + 1].key = all_ebd_keys[2]

\* ------------------------------------------------------------------ C14

\* The places of out that hold the progress line of key k.
ProgressLines(k) == {i \in 1..Len(out) : out[i].line = "progress" /\ out[i].key = k}

\* Key k stands in some list of the ledger.
InLedger(ledger, k) ==
    \E i \in 1..Len(ledger) : \E j \in 1..Len(ledger[i][2]) : ledger[i][2][j] = k

\* The iteration of key k has begun.
Processed(k) ==
    \/ KeyIndex(k) < idx
    \/ KeyIndex(k) = idx /\ pc # "for"

\* C14: every key whose iteration has begun has exactly one progress line, no
\* other key has one, and the progress line of a key stands before every
\* other printed line about it; a call, a file or a ledger entry of a key
\* exists only once its progress line has been printed.
C14_ProgressLineFirst ==
    \A k \in Keys :
        LET progress == ProgressLines(k) IN
        /\ Cardinality(progress) = (IF Processed(k) THEN 1 ELSE 0)
        /\ (\/ Attempted("get_ebd_docx_tables", k)
            \/ FilesOf(k) # {}
            \/ InLedger(error_sources, k)) => progress # {}
        /\ \A i \in 1..Len(out) :
              (out[i].line \in {"exported", "error", "skip_puml"} /\ out[i].key = k) =>
                  \E j \in progress : j < i

\* C14 witness: a finished run over two keys that printed an error line for
\* the first key and a success line for the second.
C14_Witness ==
    /\ pc = "done"
    /\ Len(all_ebd_keys) = 2
    /\ \E i, j \in 1..Len(out) :
          /\ out[i].line = "error" /\ out[i].key = all_ebd_keys[1]
          /\ out[j].line = "exported" /\ out[j].key = all_ebd_keys[2]
    /\ Entries(error_sources, all_ebd_keys[1], <<>>) # {}

\* ------------------------------------------------------------------ C15

\* The .json files of a directory listing, names with contents.
JsonFiles(fs) == {<<n, fs[n]>> : n \in {m \in DOMAIN fs : m[2] = "json"}}

\* C15: a second run over the same document and output directory, with every
\* call behaving as in the first run, ends as the first run ended, and the
\* .json files it leaves are those the first run left, with the same contents.
C15_JsonIdempotent ==
    (run = 2 /\ pc \in {"done", "crashed"}) =>
        /\ pc = first.pc
        /\ calls = first.calls
        /\ JsonFiles(files) = JsonFiles(first.files)

\* C15 witness: the second run has finished over the directory of the first,
\* which it found existing, and two keys have their .json file.
C15_Witness ==
    /\ run = 2
    /\ pc = "done"
    /\ \E i \in 1..Len(out) : out[i].line = "dir_exists"
    /\ Cardinality(JsonFiles(files)) = 2
    /\ JsonFiles(first.files) = JsonFiles(files)

\* ------------------------------------------------------------------ C16

NormalizationCalls == {"EbdTable", "convert_docx_tables_to_ebd_table"}

\* The normalization of k was called and raised nothing.
Normalized(k) == \E fn \in NormalizationCalls : Called(fn, k, "ok")

\* C16: with no export type selected no file is written and no _dump_*
\* function is called, yet every key whose iteration has ended was extracted,
\* normalized if the extraction succeeded and converted to a graph if the
\* normalization succeeded, and every failure of these three stages that
\* _main catches stands in the ledger under the key of its category and
\* exception.
C16_NoExportStillRuns ==
    (export_types = {} /\ pc # "start") =>
        /\ settings_valid(env) => files = NoFiles
        /\ \A i \in 1..Len(calls) :
              /\ calls[i].fn \in {"get_ebd_docx_tables", "convert_table_to_graph"}
                                    \cup NormalizationCalls
              /\ ScrapingFailure(i) =>
                    Listed(error_sources, calls[i].key,
                           KeyPrefix("ERROR", "scraping") \o CodePoints(calls[i].result))
              /\ (calls[i].fn = "convert_table_to_graph" /\ calls[i].result # "ok") =>
                    Listed(error_sources, calls[i].key,
                           KeyPrefix("ERROR", "graph_conversion")
                               \o CodePoints(calls[i].result))
        /\ \A k \in Keys :
              Finished(k) =>
                  /\ Attempted("get_ebd_docx_tables", k)
                  /\ Called("get_ebd_docx_tables", k, "ok") =>
                        \E fn \in NormalizationCalls : Attempted(fn, k)
                  /\ Normalized(k) => Attempted("convert_table_to_graph", k)

\* C16 witness: a finished run without export types over two keys, one whose
\* graph conversion failed and one whose graph conversion succeeded; the
\* directory is empty and the ledger is not.
C16_Witness ==
    /\ export_types = {}
    /\ pc = "done"
    /\ Len(all_ebd_keys) = 2
    /\ files = NoFiles
    /\ \E k1, k2 \in Keys :
          /\ Called("convert_table_to_graph", k1, "GraphConversionError")
          /\ Called("convert_table_to_graph", k2, "ok")
    /\ sorted_errors # <<>>

\* ------------------------------------------------------------------ C17

\* The file a _dump_* function writes next to the key.
DumpExtension(fn) ==
    CASE fn = "_dump_json" -> "json"
      [] fn = "_dump_puml" -> "puml"
      [] fn = "_dump_dot" -> "dot"
      [] fn = "_dump_svg" -> "svg"

\* The names of the files the dumps of this run have written.
WrittenThisRun ==
    {<<calls[i].key, DumpExtension(calls[i].fn)>> :
        i \in {j \in 1..Len(calls) :
                 /\ calls[j].fn \in {"_dump_json", "_dump_puml", "_dump_dot", "_dump_svg"}
                 /\ calls[j].result = "ok"}}

\* C17: with valid settings, startup leaves no file in an output directory
\* that existed (the first key is reached with an empty directory), no step
\* of the run changes the sub-directories or what they hold, and from then on
\* the files of the directory are exactly those written by this run.
C17_ExistingDirectoryCleared ==
    [][/\ subdirs' = subdirs
       /\ (pc = "start" /\ pc' = "for") => (files' = NoFiles /\ idx' = 1)
       /\ (settings_valid(env) /\ pc' # "start") =>
             /\ DOMAIN files' = WrittenThisRun'
             /\ \A n \in DOMAIN files' : files'[n].kind = n[2]]_vars

\* C17 witness: a run that found the directory with files and a
\* sub-directory of an earlier run has finished and has written files; the
\* sub-directory is as it was and none of the earlier files is left.
C17_Witness ==
    /\ pc = "done"
    /\ out[1].line = "dir_exists"
    /\ subdirs = StaleSubdirs
    /\ subdirs # {}
    /\ files # NoFiles
    /\ DOMAIN files \cap DOMAIN StaleFiles = {}
    /\ <<KeyPool[1], "json">> \in DOMAIN files

\* ------------------------------------------------------------------ C18

\* C18: a key whose dot export raised has no svg export attempted and no .svg
\* file, and stands in the list of the ERROR:svg_export key of the exception
\* the dot export raised; a key whose svg export raised stands under the
\* ERROR:svg_export key of that exception and, if dot was asked for, keeps the
\* .dot file written before.
C18_DotAndSvgShareHandlers ==
    \A i \in 1..Len(calls) :
        /\ (calls[i].fn = "_dump_dot" /\ calls[i].result # "ok") =>
              /\ ~Attempted("_dump_svg", calls[i].key)
              /\ <<calls[i].key, "svg">> \notin DOMAIN files
              /\ Listed(error_sources, calls[i].key,
                        KeyPrefix("ERROR", "svg_export") \o CodePoints(calls[i].result))
        /\ (calls[i].fn = "_dump_svg" /\ calls[i].result # "ok") =>
              /\ <<calls[i].key, "svg">> \notin DOMAIN files
              /\ Listed(error_sources, calls[i].key,
                        KeyPrefix("ERROR", "svg_export") \o CodePoints(calls[i].result))
              /\ "dot" \in export_types =>
                    /\ <<calls[i].key, "dot">> \in DOMAIN files
                    /\ files[<<calls[i].key, "dot">>].kind = "dot"

\* C18 witness: dot and svg were both asked for; the dot export of the first
\* key raised and the key is finished, the svg export of the second key
\* raised after its .dot file had been written.
C18_Witness ==
    /\ {"dot", "svg"} \subseteq export_types
    /\ pc = "done"
    /\ Len(all_ebd_keys) = 2
    /\ Called("_dump_dot", all_ebd_keys[1], "ValueError")
    /\ Called("_dump_dot", all_ebd_keys[2], "ok")
    /\ Called("_dump_svg", all_ebd_keys[2], "SvgConversionError")
    /\ <<all_ebd_keys[2], "dot">> \in DOMAIN files

\* ------------------------------------------------------------------ C19

\* "[<severity>:" as text, the start of every ledger key of that severity.
SeverityPrefixes ==
    [severity \in {"ERROR", "WARNING"} |->
        CodePoints("[") \o CodePoints(severity) \o CodePoints(":")]

\* The places of the ledger whose list holds key k.
ListsHolding(ledger, k) ==
    {i \in 1..Len(ledger) : \E j \in 1..Len(ledger[i][2]) : ledger[i][2][j] = k}

\* Among the given places of the ledger, those whose key starts with prefix.
Under(ledger, places, prefix) == {i \in places : startswith(ledger[i][1], prefix)}

\* C19: in the ledger, and in the summary built from it, no list holds a key
\* twice, a key stands in at most one list of the ERROR keys and in at most
\* one list of the WARNING keys (two places at most), and a key that stands
\* under a scraping or a graph-conversion key stands under no puml_export and
\* no svg_export key.
C19_AtMostOncePerSeverity ==
    \A k \in Keys :
        \A ledger \in IF pc = "done" THEN {error_sources, sorted_errors}
                                       ELSE {error_sources} :
            LET places == ListsHolding(ledger, k) IN
            /\ \A i \in places :
                  Cardinality({j \in 1..Len(ledger[i][2]) : ledger[i][2][j] = k}) = 1
            /\ Cardinality(Under(ledger, places, SeverityPrefixes["ERROR"])) <= 1
            /\ Cardinality(Under(ledger, places, SeverityPrefixes["WARNING"])) <= 1
            /\ Cardinality(places) <= 2
            /\ (\/ Under(ledger, places, KeyPrefix("ERROR", "scraping")) # {}
                \/ Under(ledger, places, KeyPrefix("ERROR", "graph_conversion")) # {}) =>
                  /\ Under(ledger, places, KeyPrefix("WARNING", "puml_export")) = {}
                  /\ Under(ledger, places, KeyPrefix("ERROR", "svg_export")) = {}

\* C19 witness: in a finished run one key stands twice in the summary, under
\* a WARNING:puml_export key and under an ERROR:svg_export key, and another
\* key stands under a graph-conversion key only.
C19_Witness ==
    /\ pc = "done"
    /\ \E k1, k2 \in Keys :
          /\ Cardinality(Entries(sorted_errors, k1, <<>>)) = 2
          /\ Entries(sorted_errors, k1, KeyPrefix("WARNING", "puml_export")) # {}
          /\ Entries(sorted_errors, k1, KeyPrefix("ERROR", "svg_export")) # {}
          /\ Cardinality(Entries(sorted_errors, k2, <<>>)) = 1
          /\ Entries(sorted_errors, k2, KeyPrefix("ERROR", "graph_conversion")) # {}

====
